---- MODULE Spec2Model ----
(***************************************************************************)
(* A model of the expiring cache of src/expiringcache.go: an ordered store *)
(* of (Key, Value, ExpireAt) entries behind one mutex, a sampling eviction *)
(* that runs at the start of every put, and an optional periodic sweep.    *)
(***************************************************************************)
EXTENDS Integers, Sequences, FiniteSets, TLC

\* ------------------------------------------------------------------ bounds
\* The wall clock (seconds) runs from 0 to MaxTime.
MaxTime == 1

\* ------------------------------------------------------- program constants
\* evictKey's horizon: 365 * 86400 seconds.
YearSeconds == 365 * 86400

\* ------------------------------------------------------------------ inputs
\* Keys are byte strings: "a", "b".
Keys == {<<97>>, <<98>>}
\* Values are opaque (interface{}); 0 stands for Go's nil, which Get and
\* PopRandom also give back as the "no value" sentinel and which a caller
\* may store like any other value.
NoValue == 0
Values == {NoValue, 1}
\* Durations handed to PutWithExpiry, in seconds.
Durations == {0, YearSeconds}
\* The callers of the public operations.
Procs == {"c1", "c2"}
\* The configurations a Cache is constructed with.
Config(duration, max, nEvictions, nSamples, interval) ==
    [Duration |-> duration, Max |-> max, NEvictions |-> nEvictions,
     NSamples |-> nSamples, PeriodicEvictionInterval |-> interval]

Configs ==
    { Config(0, 1, 2, 0, 0),            \* the test's: one entry, no sweep
      Config(YearSeconds, 1, 1, 0, 0),  \* one entry, entries kept a year
      Config(YearSeconds, 0, 0, 0, 0),  \* unbounded, no sweep
      Config(0, 0, 0, 0, 1),            \* unbounded, swept
      Config(0, 1, 0, 0, 0),            \* one entry, no eviction rounds
      Config(0, 2, 1, 2, 0),            \* two entries, one round of two samples
      Config(YearSeconds, 2, 2, 0, 0),  \* two entries, two rounds of one sample
      Config(0, 2, 2, 2, 1) }           \* two entries, two rounds, swept

VARIABLES
    cfg,        \* the Cache's configuration fields
    data,       \* p.data: the tree's entries in key order
    now,        \* the wall clock, time.Now().UTC().Unix()
    mutex,      \* the holder of the Cache's sync.Mutex, or "free"
    pc,         \* where each caller stands: between calls ("idle"), at the
                \* Lock of a call ("call"), or inside PutWithExpiry
    args,       \* the key and the locals of each caller's PutWithExpiry
    sweep,      \* the goroutine evictPeriodically: pc, now, to_remove
    iter,       \* the traversal started by Iter: "off", "clean", "dirty"
    ret         \* what the operation that has just returned gave back

vars == <<cfg, data, now, mutex, pc, args, sweep, iter, ret>>

\* ------------------------------------------------------------- CacheValue
CacheValue(key, value, expireAt) ==
    [Key |-> key, Value |-> value, ExpireAt |-> expireAt]

\* Go's < on strings: bytewise lexicographic.
RECURSIVE StrLess(_, _)
StrLess(a, b) ==
    IF a = <<>> THEN b # <<>>
    ELSE IF b = <<>> THEN FALSE
    ELSE IF a[1] # b[1] THEN a[1] < b[1]
    ELSE StrLess(Tail(a), Tail(b))

CompareNeverEqual(p, b) ==
    IF StrLess(p.Key, b.Key) THEN -1 ELSE 1

Compare(p, b) ==
    IF StrLess(p.Key, b.Key) THEN -1
    ELSE IF StrLess(b.Key, p.Key) THEN 1
    ELSE 0

\* ------------------------------------------------ the ordered store (tree)
\* The tree is kept as the sequence of its entries in Compare order.
TreeLen(t) == Len(t)

TreeAt(t, index) == t[index + 1]

\* The position of the entry that compares equal to e, or 0.
TreeIndex(t, e) ==
    IF \E i \in 1..Len(t) : Compare(e, t[i]) = 0
    THEN CHOOSE i \in 1..Len(t) :
            /\ Compare(e, t[i]) = 0
            /\ \A j \in 1..(i - 1) : Compare(e, t[j]) # 0
    ELSE 0

TreeFind(t, e) == TreeIndex(t, e) # 0

\* Add without the AllowDuplicates flag: an equal entry is kept as it is.
TreeAdd(t, e) ==
    IF TreeFind(t, e) THEN t
    ELSE LET below == Cardinality({i \in 1..Len(t) : Compare(e, t[i]) > 0})
         IN  SubSeq(t, 1, below) \o <<e>> \o SubSeq(t, below + 1, Len(t))

TreeRemove(t, e) ==
    LET i == TreeIndex(t, e)
    IN  IF i = 0 THEN t ELSE SubSeq(t, 1, i - 1) \o SubSeq(t, i + 1, Len(t))

TreeIter(t) == t

\* The entry stored for key (only read when it is present).
Entry(t, key) == t[TreeIndex(t, CacheValue(key, NoValue, 0))]

Present(t, key) == TreeFind(t, CacheValue(key, NoValue, 0))

\* ------------------------------------------------------------- evictKey
NumSamples == IF cfg.NSamples = 0 THEN 1 ELSE cfg.NSamples

RECURSIVE SampleMinOrEqual(_, _, _, _)
SampleMinOrEqual(t, samples, min_ts, min_v) ==
    IF samples = <<>> THEN min_v
    ELSE LET v == TreeAt(t, Head(samples))
         IN  IF v.ExpireAt <= min_ts
             THEN SampleMinOrEqual(t, Tail(samples), v.ExpireAt, <<v>>)
             ELSE SampleMinOrEqual(t, Tail(samples), min_ts, min_v)

\* The loop over the sampled indices: min_v is <<>> (nil) or <<entry>>.
RECURSIVE SampleMin(_, _, _, _)
SampleMin(t, samples, min_ts, min_v) ==
    IF samples = <<>> THEN min_v
    ELSE LET v == TreeAt(t, Head(samples))
         IN  IF v.ExpireAt < min_ts
             THEN SampleMin(t, Tail(samples), v.ExpireAt, <<v>>)
             ELSE SampleMin(t, Tail(samples), min_ts, min_v)

\* One sampling round on tree t with the indices rand.Intn drew, at time.
evictKey(t, samples, time) ==
    LET min_v == SampleMin(t, samples, time + YearSeconds, <<>>)
    IN  IF min_v # <<>> THEN TreeRemove(t, min_v[1]) ELSE t

UpdateReturnsUnbounded(t) == cfg.Max = 0

\* update() returns at once: no capacity, or below it.
UpdateReturns(t) == cfg.Max = 0 \/ TreeLen(t) < cfg.Max

UpdateLoopsUntilRoom(t, i) == i < cfg.NEvictions /\ TreeLen(t) >= cfg.Max

\* update()'s loop condition.
UpdateLoops(t, i) == i < cfg.NEvictions /\ TreeLen(t) > 0

\* ------------------------------------------------------------ bookkeeping
NoArgs ==
    [key |-> <<>>, i |-> 0, cnt0 |-> 0, exp0 |-> -1, ran |-> FALSE]

\* op: the operation that returned, or "evictKey" after a round of a put's
\* eviction pass; key, val: its key and its value (the value put or given
\* back, the count, 1/0 for a boolean); out: the entries it gave back, or
\* the indices a round drew; cnt0: the count when it took the lock; the rest
\* describes a put: its duration, the key's ExpireAt when it took the lock
\* (-1: absent), whether its eviction pass ran, the rounds the pass ran and
\* whether Add reported a duplicate.
Ret(op, key, val, out) ==
    [op |-> op, key |-> key, val |-> val, out |-> out, duration |-> 0,
     cnt0 |-> 0, exp0 |-> -1, ran |-> FALSE, rounds |-> 0, is_dup |-> FALSE]

NoRet == Ret("none", <<>>, NoValue, <<>>)

\* A traversal in flight meets a store that is changed under it.
IterAfter(t) == IF iter = "clean" /\ t # data THEN "dirty" ELSE iter

\* Caller p holds no lock: it is between two calls or waits at p.Lock().
AtLock(p) == pc[p] \in {"idle", "call"}

Lock(p) == mutex = "free" /\ mutex' = p

UnlockForgotten(p) == mutex = p /\ mutex' = mutex

Unlock(p) == mutex = p /\ mutex' = "free"

\* Lock and Unlock around a body that is one step, and the return.
LockUnlock(p) ==
    /\ AtLock(p)
    /\ mutex = "free"
    /\ mutex' = mutex
    /\ pc' = [pc EXCEPT ![p] = "idle"]

\* ------------------------------------------------------------------- Init
SweepAlways(interval) == "sleep"

SweepInverted(interval) == IF interval = 0 THEN "sleep" ELSE "off"

\* Init: the sweep goroutine is started unless the interval is 0.
SweepStart(interval) == IF interval = 0 THEN "off" ELSE "sleep"

Init ==
    /\ cfg \in Configs
    /\ data = <<>>
    /\ now = 0
    /\ mutex = "free"
    /\ pc = [p \in Procs |-> "idle"]
    /\ args = [p \in Procs |-> NoArgs]
    /\ sweep = [pc |-> SweepStart(cfg.PeriodicEvictionInterval),
                now |-> 0, to_remove |-> <<>>]
    /\ iter = "off"
    /\ ret = NoRet

\* ---------------------------------------------------------------- actions
\* A second passes.
Tick ==
    /\ now < MaxTime
    /\ now' = now + 1
    /\ ret' = NoRet
    /\ UNCHANGED <<cfg, data, mutex, pc, args, sweep, iter>>

PutWithExpiryIfNew(p, key) ==
    /\ AtLock(p)
    /\ Lock(p)
    /\ pc' = [pc EXCEPT ![p] = IF UpdateReturns(data) \/ Present(data, key)
                               THEN "insert" ELSE "evict"]
    /\ args' = [args EXCEPT ![p] =
                  [key |-> key, i |-> 0,
                   cnt0 |-> TreeLen(data),
                   exp0 |-> IF Present(data, key)
                            THEN Entry(data, key).ExpireAt ELSE -1,
                   ran |-> ~(UpdateReturns(data) \/ Present(data, key))]]
    /\ ret' = NoRet
    /\ UNCHANGED <<cfg, data, now, sweep, iter>>

\* PutWithExpiry(key, value, duration) up to the end of update()'s test:
\* Lock, then either on to the insert or into the eviction loop. Nothing
\* before line 90 reads value or duration, so they are drawn there.
PutWithExpiry(p, key) ==
    /\ AtLock(p)
    /\ Lock(p)
    /\ pc' = [pc EXCEPT ![p] = IF UpdateReturns(data) THEN "insert" ELSE "evict"]
    /\ args' = [args EXCEPT ![p] =
                  [key |-> key, i |-> 0,
                   cnt0 |-> TreeLen(data),
                   exp0 |-> IF Present(data, key)
                            THEN Entry(data, key).ExpireAt ELSE -1,
                   ran |-> ~UpdateReturns(data)]]
    /\ ret' = NoRet
    /\ UNCHANGED <<cfg, data, now, sweep, iter>>

\* One round of update()'s loop: evictKey with freshly drawn indices.
EvictRound(p) ==
    /\ pc[p] = "evict"
    /\ mutex = p
    /\ UpdateLoops(data, args[p].i)
    /\ \E samples \in [1..NumSamples -> 0..(TreeLen(data) - 1)] :
          /\ data' = evictKey(data, samples, now)
          /\ ret' = [Ret("evictKey", args[p].key, NoValue, samples)
                       EXCEPT !.cnt0 = TreeLen(data)]
    /\ args' = [args EXCEPT ![p].i = @ + 1]
    /\ iter' = IterAfter(data')
    /\ UNCHANGED <<cfg, now, mutex, pc, sweep>>

PutKeepValue(t, v) == TreeAdd(t, v)

PutRefresh(t, v) ==
    IF TreeFind(t, v)
    THEN [t EXCEPT ![TreeIndex(t, v)] = v]
    ELSE TreeAdd(t, v)

\* The store after PutWithExpiry's Add of v and its update of a duplicate.
PutStore(t, v) ==
    IF TreeFind(t, v)
    THEN [t EXCEPT ![TreeIndex(t, v)].Value = v.Value]
    ELSE TreeAdd(t, v)

\* The rest of PutWithExpiry, once update() has returned: build the entry,
\* Add it, update a duplicate's Value, Unlock.
PutInsert(p, value, duration) ==
    /\ pc[p] = "insert" \/ (pc[p] = "evict" /\ ~UpdateLoops(data, args[p].i))
    /\ LET v == CacheValue(args[p].key, value, now + duration)
       IN  /\ data' = PutStore(data, v)
           /\ ret' = [Ret("PutWithExpiry", args[p].key, value, <<>>)
                        EXCEPT !.duration = duration,
                               !.cnt0 = args[p].cnt0,
                               !.exp0 = args[p].exp0,
                               !.ran = args[p].ran,
                               !.rounds = args[p].i,
                               !.is_dup = TreeFind(data, v)]
    /\ Unlock(p)
    /\ pc' = [pc EXCEPT ![p] = "idle"]
    /\ args' = [args EXCEPT ![p] = NoArgs]
    /\ iter' = IterAfter(data')
    /\ UNCHANGED <<cfg, now, sweep>>

\* Put(key, value) is PutWithExpiry(key, value, p.Duration).
Put(p, value) == PutInsert(p, value, cfg.Duration)

\* Get: the Value of the entry Find returns, nil when there is none.
GetExpiring(p, key) ==
    /\ LockUnlock(p)
    /\ ret' = Ret("Get", key,
                  IF Present(data, key) /\ Entry(data, key).ExpireAt > now
                  THEN Entry(data, key).Value ELSE NoValue, <<>>)
    /\ UNCHANGED <<cfg, data, now, args, sweep, iter>>

Get(p, key) ==
    /\ LockUnlock(p)
    /\ ret' = Ret("Get", key,
                  IF Present(data, key) THEN Entry(data, key).Value ELSE NoValue,
                  <<>>)
    /\ UNCHANGED <<cfg, data, now, args, sweep, iter>>

DelAtFront(p, key) ==
    /\ LockUnlock(p)
    /\ data' = IF TreeLen(data) # 0 THEN TreeRemove(data, TreeAt(data, 0))
               ELSE data
    /\ ret' = [Ret("Del", key, NoValue, <<>>) EXCEPT !.cnt0 = TreeLen(data)]
    /\ iter' = IterAfter(data')
    /\ UNCHANGED <<cfg, now, args, sweep>>

Del(p, key) ==
    /\ LockUnlock(p)
    /\ data' = TreeRemove(data, CacheValue(key, NoValue, 0))
    /\ ret' = [Ret("Del", key, NoValue, <<>>) EXCEPT !.cnt0 = TreeLen(data)]
    /\ iter' = IterAfter(data')
    /\ UNCHANGED <<cfg, now, args, sweep>>

PopRandomKeep(p) ==
    /\ LockUnlock(p)
    /\ IF TreeLen(data) # 0
       THEN \E index \in 0..(TreeLen(data) - 1) :
               LET v == TreeAt(data, index)
               IN  /\ data' = data
                   /\ ret' = Ret("PopRandom", v.Key, v.Value, <<>>)
       ELSE /\ data' = data
            /\ ret' = Ret("PopRandom", <<>>, NoValue, <<>>)
    /\ iter' = IterAfter(data')
    /\ UNCHANGED <<cfg, now, args, sweep>>

PopRandom(p) ==
    /\ LockUnlock(p)
    /\ IF TreeLen(data) # 0
       THEN \E index \in 0..(TreeLen(data) - 1) :
               LET v == TreeAt(data, index)
               IN  /\ data' = TreeRemove(data, v)
                   /\ ret' = Ret("PopRandom", v.Key, v.Value, <<>>)
       ELSE /\ data' = data
            /\ ret' = Ret("PopRandom", <<>>, NoValue, <<>>)
    /\ iter' = IterAfter(data')
    /\ UNCHANGED <<cfg, now, args, sweep>>

ExistsEvicting(p, key) ==
    /\ LockUnlock(p)
    /\ LET live == Present(data, key) /\ Entry(data, key).ExpireAt > now
       IN  /\ data' = IF live THEN data
                      ELSE TreeRemove(data, CacheValue(key, NoValue, 0))
           /\ ret' = Ret("Exists", key, IF live THEN 1 ELSE 0, <<>>)
    /\ iter' = IterAfter(data')
    /\ UNCHANGED <<cfg, now, args, sweep>>

\* Exists: val is 1 for true, 0 for false.
Exists(p, key) ==
    /\ LockUnlock(p)
    /\ ret' = Ret("Exists", key, IF Present(data, key) THEN 1 ELSE 0, <<>>)
    /\ UNCHANGED <<cfg, data, now, args, sweep, iter>>

Count(p) ==
    /\ LockUnlock(p)
    /\ ret' = Ret("Count", <<>>, TreeLen(data), <<>>)
    /\ UNCHANGED <<cfg, data, now, args, sweep, iter>>

\* Iter: starts the tree's traversal and the forwarding goroutine, and
\* returns the channel. It takes no lock.
Iter(p) ==
    /\ pc[p] = "idle"
    /\ iter = "off"
    /\ iter' = "clean"
    /\ ret' = NoRet
    /\ UNCHANGED <<cfg, data, now, mutex, pc, args, sweep>>

\* The entries of t at the positions in S, in order.
RECURSIVE Keep(_, _, _)
Keep(t, S, i) ==
    IF i > Len(t) THEN <<>>
    ELSE (IF i \in S THEN <<t[i]>> ELSE <<>>) \o Keep(t, S, i + 1)

IterDrainShort ==
    /\ iter # "off"
    /\ ret' = Ret("Iter", <<>>, NoValue,
                  Keep(TreeIter(data), 1..(TreeLen(data) - 1), 1))
    /\ iter' = "off"
    /\ UNCHANGED <<cfg, data, now, mutex, pc, args, sweep>>

\* The consumer drains the channel until it is closed. A traversal no
\* mutation ran into yields the tree in order; one that raced with a
\* mutation may have met or missed any entry.
IterDrain ==
    /\ iter # "off"
    /\ \E S \in SUBSET (1..TreeLen(data)) :
          /\ iter = "clean" => S = 1..TreeLen(data)
          /\ ret' = Ret("Iter", <<>>, NoValue, Keep(TreeIter(data), S, 1))
    /\ iter' = "off"
    /\ UNCHANGED <<cfg, data, now, mutex, pc, args, sweep>>

ExpiredBefore(cv, time) == cv.ExpireAt < time

\* evictPeriodically's test: not "going to expire in the future".
Expired(cv, time) == ~(cv.ExpireAt > time)

\* evictPeriodically, from Lock to the end of the scan.
SweepCollect ==
    /\ sweep.pc = "sleep"
    /\ Lock("sweep")
    /\ sweep' = [pc |-> "remove", now |-> now,
                 to_remove |-> SelectSeq(TreeIter(data),
                                         LAMBDA cv : Expired(cv, now))]
    /\ ret' = NoRet
    /\ UNCHANGED <<cfg, data, now, pc, args, iter>>

RECURSIVE RemoveAll(_, _)
RemoveAll(t, to_remove) ==
    IF to_remove = <<>> THEN t
    ELSE RemoveAll(TreeRemove(t, Head(to_remove)), Tail(to_remove))

\* evictPeriodically's second loop and its Unlock.
SweepRemove ==
    /\ sweep.pc = "remove"
    /\ data' = RemoveAll(data, sweep.to_remove)
    /\ Unlock("sweep")
    /\ sweep' = [pc |-> "sleep", now |-> 0, to_remove |-> <<>>]
    /\ ret' = Ret("Sweep", <<>>, sweep.now, sweep.to_remove)
    /\ iter' = IterAfter(data')
    /\ UNCHANGED <<cfg, now, pc, args>>

Next ==
    \/ Tick
    \/ \E p \in Procs, key \in Keys : PutWithExpiry(p, key)
    \/ \E p \in Procs : EvictRound(p)
    \/ \E p \in Procs, value \in Values, duration \in Durations :
          PutInsert(p, value, duration)
    \/ \E p \in Procs, value \in Values : Put(p, value)
    \/ \E p \in Procs, key \in Keys : Get(p, key)
    \/ \E p \in Procs, key \in Keys : Del(p, key)
    \/ \E p \in Procs : PopRandom(p)
    \/ \E p \in Procs, key \in Keys : Exists(p, key)
    \/ \E p \in Procs : Count(p)
    \/ \E p \in Procs : Iter(p)
    \/ IterDrain
    \/ SweepCollect
    \/ SweepRemove

Spec == Init /\ [][Next]_vars

\* ------------------------------------------------------------ properties
\* What the claims read off a state: the entries stored for a key.
EntriesOf(key) == {i \in 1..Len(data) : data[i].Key = key}

\* No operation is in flight: every caller is between two calls.
Quiescent == mutex = "free"

\* The keys stored in t.
KeysOf(t) == {t[i].Key : i \in 1..Len(t)}

\* The entries of t stored for another key than key, in order.
Others(t, key) == SelectSeq(t, LAMBDA cv : cv.Key # key)

\* C1 (as claimed): with Max > 0 and NEvictions >= 1, a PutWithExpiry that
\* starts with Count() >= Max ends with Count() <= Max, and Count() <= Max in
\* every state observed between operations.
C1_CapacityBound ==
    (cfg.Max > 0 /\ cfg.NEvictions >= 1) =>
        /\ (ret.op = "PutWithExpiry" /\ ret.cnt0 >= cfg.Max) =>
               TreeLen(data) <= cfg.Max
        /\ Quiescent => TreeLen(data) <= cfg.Max

\* C2 (as claimed): a PutWithExpiry of a key that is present when the call
\* starts makes its value the stored one and leaves its ExpireAt as it was.
C2_UpdateNotRefresh_AsClaimed ==
    (ret.op = "PutWithExpiry" /\ ret.exp0 # -1) =>
        \A i \in EntriesOf(ret.key) :
            data[i].Value = ret.val /\ data[i].ExpireAt = ret.exp0

\* C2 (amended): a PutWithExpiry of a key that is present when the call
\* starts and that the call's own eviction pass does not remove (no pass runs
\* when Max = 0 or Count() < Max) makes its value the stored one and leaves
\* its ExpireAt as it was before the call.
C2_UpdateNotRefresh ==
    ret.op = "PutWithExpiry" =>
        /\ ret.is_dup =>
              /\ ret.exp0 # -1
              /\ \A i \in EntriesOf(ret.key) :
                    data[i].Value = ret.val /\ data[i].ExpireAt = ret.exp0
        /\ (ret.exp0 # -1 /\ ~ret.ran) => ret.is_dup

\* C2's case: an update that asked for another expiry than the entry keeps.
C2_Witness ==
    /\ ret.op = "PutWithExpiry"
    /\ ret.is_dup
    /\ ret.exp0 # now + ret.duration
    /\ \E i \in EntriesOf(ret.key) : data[i].ExpireAt = ret.exp0

\* C3: the store never holds two entries with one key, Count() is the number
\* of distinct keys present, and a put of a present key adds no entry.
C3_Uniqueness ==
    /\ \A i, j \in 1..Len(data) : data[i].Key = data[j].Key => i = j
    /\ ret.op = "Count" =>
          ret.val = Cardinality({data[i].Key : i \in 1..Len(data)})
    /\ (ret.op = "PutWithExpiry" /\ ret.is_dup) =>
          Cardinality(EntriesOf(ret.key)) = 1

\* C3's case: a key that was present has been put again into a full store.
C3_Witness ==
    /\ ret.op = "PutWithExpiry"
    /\ ret.is_dup
    /\ Len(data) = Cardinality(Keys)

\* A step that may take away or overwrite the entry of key.
MayRemoveOrOverwrite(key) ==
    \/ ret'.op \in {"Del", "PopRandom", "PutWithExpiry"} /\ ret'.key = key
    \/ ret'.op = "Sweep"
    \/ \E p \in Procs : pc[p] = "evict" /\ args'[p].i = args[p].i + 1

\* C4: when a put returns its key is present with the value put, whether or
\* not its eviction pass ran; and the value stored for a key stays until a
\* Del, a PopRandom, a capacity eviction, a sweep or a put of that key.
C4_RoundTrip ==
    [][/\ ret'.op = "PutWithExpiry" =>
            /\ Present(data', ret'.key)
            /\ Entry(data', ret'.key).Value = ret'.val
       /\ data' # data => \A key \in Keys :
            (/\ Present(data, key)
             /\ \/ ~Present(data', key)
                \/ Entry(data', key).Value # Entry(data, key).Value)
            => MayRemoveOrOverwrite(key)]_vars

\* C4's case: a put whose eviction pass ran has returned.
C4_Witness ==
    /\ ret.op = "PutWithExpiry"
    /\ ret.ran
    /\ \E i \in EntriesOf(ret.key) : data[i].Value = ret.val

\* C5 (as claimed): with Max = 1, NEvictions >= 1 and no sweep, after every
\* Put(k, v) the store holds exactly one entry, k's, with value v.
C5_EvictionMakesRoom ==
    (/\ cfg.Max = 1
     /\ cfg.NEvictions >= 1
     /\ cfg.PeriodicEvictionInterval = 0
     /\ ret.op = "PutWithExpiry"
     /\ ret.duration = cfg.Duration)
    => /\ Len(data) = 1
       /\ data[1].Key = ret.key
       /\ data[1].Value = ret.val

\* C6: Get and Exists answer from the presence of an entry alone, whatever
\* its ExpireAt and the time.
C6_NoExpiryOnRead ==
    /\ ret.op = "Get" =>
          /\ EntriesOf(ret.key) = {} => ret.val = NoValue
          /\ \A i \in EntriesOf(ret.key) : ret.val = data[i].Value
    /\ ret.op = "Exists" =>
          (ret.val = 1) = (EntriesOf(ret.key) # {})

\* C6's case: Get has returned the value of an entry whose time has passed.
C6_Witness ==
    /\ ret.op = "Get"
    /\ ret.val # NoValue
    /\ \E i \in EntriesOf(ret.key) : data[i].ExpireAt < now

\* C7: without a sweep (PeriodicEvictionInterval = 0) time alone removes
\* nothing: a second passing leaves the store as it is, and an entry leaves
\* only by Del, by PopRandom or in an eviction round of a PutWithExpiry that
\* started with Count() >= Max.
C7_NoRemovalWithoutSweep ==
    [][(cfg.PeriodicEvictionInterval = 0 /\ data' # data) =>
         /\ now' = now
         /\ \A key \in Keys :
               (EntriesOf(key) # {} /\ ~Present(data', key)) =>
                  \/ ret'.op \in {"Del", "PopRandom"} /\ ret'.key = key
                  \/ \E p \in Procs :
                        /\ pc[p] = "evict"
                        /\ args'[p].i = args[p].i + 1
                        /\ cfg.Max > 0
                        /\ args[p].cnt0 >= cfg.Max]_vars

\* C7's case: no sweep, every stored entry's time has passed, and Count()
\* still reports them.
C7_Witness ==
    /\ cfg.PeriodicEvictionInterval = 0
    /\ data # <<>>
    /\ \A i \in 1..Len(data) : data[i].ExpireAt < now
    /\ ret.op = "Count"
    /\ ret.val = Len(data)

\* C8: a sweep pass removes, with the now it read under the lock, exactly
\* the entries with ExpireAt <= now; nothing else touches the store while
\* the pass holds the lock; and when it unlocks every entry left has
\* ExpireAt > now.
C8_SweepRemovesExpired ==
    [][sweep.pc = "remove" =>
         IF ret'.op = "Sweep"
         THEN /\ ret'.val = sweep.now
              /\ mutex = "sweep" /\ mutex' = "free"
              /\ data' = SelectSeq(data, LAMBDA cv : cv.ExpireAt > sweep.now)
              /\ \A i \in 1..Len(data') : data'[i].ExpireAt > sweep.now
              /\ \A j \in 1..Len(ret'.out) : ret'.out[j].ExpireAt <= sweep.now
              /\ \A i \in 1..Len(data) :
                    data[i].ExpireAt <= sweep.now =>
                       \E j \in 1..Len(ret'.out) : ret'.out[j] = data[i]
         ELSE data' = data /\ sweep' = sweep /\ mutex' = "sweep"]_vars

\* C8's case: a pass has removed an entry and left another.
C8_Witness ==
    /\ ret.op = "Sweep"
    /\ ret.out # <<>>
    /\ data # <<>>

\* A step of whoever holds the lock: at most one of these is enabled.
HolderStep ==
    \/ SweepRemove
    \/ \E p \in Procs : EvictRound(p)
    \/ \E p \in Procs, value \in Values, duration \in Durations :
          PutInsert(p, value, duration)

\* The scheduling the sweep's progress rests on: a goroutine that holds the
\* lock goes on to release it, and a goroutine waiting for the lock gets it
\* (sync.Mutex hands the lock to a starving waiter).
Fairness == WF_vars(HolderStep) /\ SF_vars(SweepCollect)

\* The caches whose Init starts the sweep.
InitSwept == Init /\ cfg.PeriodicEvictionInterval > 0

FairSpec == InitSwept /\ [][Next]_vars /\ Fairness

\* C9: with the sweep running (PeriodicEvictionInterval > 0) and fairly
\* scheduled, an entry whose ExpireAt is at or before the current time is
\* eventually absent, unless its key is put again.
C9_ExpiredEventuallySwept ==
    \A key \in Keys :
        (/\ cfg.PeriodicEvictionInterval > 0
         /\ \E i \in EntriesOf(key) : data[i].ExpireAt <= now)
        ~> (\/ EntriesOf(key) = {}
            \/ ret.op = "PutWithExpiry" /\ ret.key = key)

\* C9's case: a key put with duration 0 has been swept and is absent.
C9_Witness ==
    /\ cfg.PeriodicEvictionInterval > 0
    /\ ret.op = "Sweep"
    /\ \E j \in 1..Len(ret.out) :
          /\ EntriesOf(ret.out[j].Key) = {}
          /\ ret.out[j].ExpireAt = ret.val

\* Caller p calls one of the locked operations and arrives at its p.Lock().
Call(p) ==
    /\ pc[p] = "idle"
    /\ pc' = [pc EXCEPT ![p] = "call"]
    /\ ret' = NoRet
    /\ UNCHANGED <<cfg, data, now, mutex, args, sweep, iter>>

\* Caller p, waiting at p.Lock(), gets the lock.
Acquire(p) ==
    /\ pc[p] = "call"
    /\ \/ \E key \in Keys : PutWithExpiry(p, key)
       \/ \E key \in Keys : Get(p, key) \/ Del(p, key) \/ Exists(p, key)
       \/ PopRandom(p)
       \/ Count(p)

\* The operations that take the lock and the sweep, with their callers seen
\* while they wait for it. The clock and Iter's traversal, which never touch
\* the lock, are left to Next.
NextLocked ==
    \/ \E p \in Procs : Call(p)
    \/ \E p \in Procs, key \in Keys : PutWithExpiry(p, key)
    \/ \E p \in Procs : EvictRound(p)
    \/ \E p \in Procs, value \in Values, duration \in Durations :
          PutInsert(p, value, duration)
    \/ \E p \in Procs, value \in Values : Put(p, value)
    \/ \E p \in Procs, key \in Keys : Get(p, key)
    \/ \E p \in Procs, key \in Keys : Del(p, key)
    \/ \E p \in Procs : PopRandom(p)
    \/ \E p \in Procs, key \in Keys : Exists(p, key)
    \/ \E p \in Procs : Count(p)
    \/ SweepCollect
    \/ SweepRemove

\* The lock's scheduling: its holder goes on to release it, and every waiter
\* gets it in the end (sync.Mutex hands the lock to a starving waiter). The
\* sweep is left free to take the lock whenever it can.
LockFairness ==
    /\ WF_vars(HolderStep)
    /\ \A p \in Procs : SF_vars(Acquire(p))

LockSpec == InitSwept /\ [][NextLocked]_vars /\ LockFairness

\* C11: a caller or a sweep pass that is not inside an operation holds no
\* lock (every path to the return, and to the sweep's sleep, unlocks); the
\* lock is only ever taken free, never by its holder again; and with the
\* sweep running every caller that waits at the lock of Put, PutWithExpiry,
\* Get, Del, PopRandom, Exists or Count returns in the end, as does every
\* sweep pass.
C11_NoIndefiniteBlocking ==
    /\ [](/\ \A p \in Procs : AtLock(p) => mutex # p
          /\ sweep.pc # "remove" => mutex # "sweep")
    /\ [][mutex' # mutex => (mutex = "free" \/ mutex' = "free")]_vars
    /\ \A p \in Procs : (pc[p] = "call") ~> (pc[p] = "idle" /\ mutex # p)
    /\ \A p \in Procs : (~AtLock(p)) ~> (pc[p] = "idle" /\ mutex # p)
    /\ (sweep.pc = "remove") ~> (sweep.pc = "sleep" /\ mutex = "free")

\* C11's case: a caller waits at the lock while the other caller is inside
\* PutWithExpiry's eviction pass.
C11_Witness ==
    \E p, q \in Procs :
        /\ pc[p] = "call"
        /\ pc[q] = "evict"
        /\ mutex = q
        /\ sweep.pc = "sleep"

\* Who is reading or changing the store.
Accessing ==
    {p \in Procs : ~AtLock(p)}
        \cup (IF sweep.pc = "remove" THEN {"sweep"} ELSE {})
        \cup (IF iter # "off" THEN {"iter"} ELSE {})

\* C10 (as claimed): every operation and sweep pass touches the store only
\* while it holds the lock, so no two of them are at the store at once; the
\* traversal started by Iter never runs beside a mutation.
C10_MutualExclusion ==
    /\ \A p \in Procs : ~AtLock(p) => mutex = p
    /\ sweep.pc = "remove" => mutex = "sweep"
    /\ Cardinality(Accessing) <= 1

\* C12: Del(k) removes k's entry if it is present and changes nothing if it
\* is absent: afterwards k is absent, Count() is 1 less if k was present and
\* the same otherwise, every entry of another key is as before; and a
\* second Del(k) right after the first changes nothing.
C12_Del ==
    [][ret'.op = "Del" =>
         /\ ret'.key \notin KeysOf(data')
         /\ Len(data') = Len(data) - (IF ret'.key \in KeysOf(data) THEN 1 ELSE 0)
         /\ ret'.key \notin KeysOf(data) => data' = data
         /\ Others(data', ret'.key) = Others(data, ret'.key)
         /\ (ret.op = "Del" /\ ret.key = ret'.key) => data' = data]_vars

\* C12's case: Del has removed a present key and left the other entry.
C12_Witness ==
    /\ ret.op = "Del"
    /\ ret.cnt0 = Len(data) + 1
    /\ ret.key \notin KeysOf(data)
    /\ data # <<>>

\* C13: PopRandom on a non-empty store removes exactly one entry that was
\* present and returns its Value, leaving every other entry as it was and
\* Count() 1 less; on an empty store it returns nil and the store stays
\* empty.
C13_PopRandom ==
    [][ret'.op = "PopRandom" =>
         IF data # <<>>
         THEN /\ Len(data') = Len(data) - 1
              /\ \E i \in 1..Len(data) :
                    /\ ret'.key = data[i].Key
                    /\ ret'.val = data[i].Value
                    /\ data' = SubSeq(data, 1, i - 1)
                                  \o SubSeq(data, i + 1, Len(data))
         ELSE ret'.val = NoValue /\ data' = <<>>]_vars

\* C13's case: PopRandom has returned the value of one of two entries.
C13_Witness ==
    /\ ret.op = "PopRandom"
    /\ ret.key # <<>>
    /\ ret.val # NoValue
    /\ Len(data) = 1
    /\ ret.key \notin KeysOf(data)

\* C14 (as claimed): Get, Exists and Count leave the store as it is; Get(k)
\* returns nil exactly when no entry for k is present, and Exists(k) is true
\* exactly when Get(k) would find an entry.
C14_ReadsPure_AsClaimed ==
    [][/\ ret'.op \in {"Get", "Exists", "Count"} => data' = data
       /\ ret'.op = "Get" =>
             (ret'.val = NoValue) = (ret'.key \notin KeysOf(data))
       /\ ret'.op = "Exists" =>
             (ret'.val = 1) = (ret'.key \in KeysOf(data))]_vars

\* C14 (amended): Get, Exists and Count leave the store as it is; Get(k)
\* returns nil exactly when no entry for k is present or the entry present
\* holds nil as its Value (otherwise it returns the entry's Value), and
\* Exists(k) is true exactly when Get(k) would find an entry.
C14_ReadsPure ==
    [][/\ ret'.op \in {"Get", "Exists", "Count"} => data' = data
       /\ ret'.op = "Get" =>
             /\ (ret'.val = NoValue) =
                   (\/ ret'.key \notin KeysOf(data)
                    \/ \E i \in EntriesOf(ret'.key) : data[i].Value = NoValue)
             /\ \A i \in EntriesOf(ret'.key) : ret'.val = data[i].Value
       /\ ret'.op = "Exists" =>
             (ret'.val = 1) = (ret'.key \in KeysOf(data))]_vars

\* C14's case: Exists has answered true for a key whose Get gives nil.
C14_Witness ==
    /\ ret.op = "Exists"
    /\ ret.val = 1
    /\ \E i \in EntriesOf(ret.key) : data[i].Value = NoValue

\* C15: a call of Iter starts a fresh traversal and leaves the store as it
\* is; the sequence it yields is finite and ends with the channel closed;
\* when no mutation happened between the call and the last entry, the
\* sequence holds every entry of the store exactly once and nothing else.
C15_Iter ==
    [][/\ (iter = "off" /\ iter' # "off") => (iter' = "clean" /\ data' = data)
       /\ ret'.op = "Iter" =>
             /\ data' = data
             /\ iter # "off" /\ iter' = "off"
             /\ Len(ret'.out) <= Len(data)
             /\ iter = "clean" =>
                   /\ Len(ret'.out) = Len(data)
                   /\ {ret'.out[j] : j \in 1..Len(ret'.out)}
                         = {data[i] : i \in 1..Len(data)}]_vars

\* C15's case: a traversal of a store of two entries has yielded both.
C15_Witness ==
    /\ ret.op = "Iter"
    /\ Len(data) = 2
    /\ Len(ret.out) = 2
    /\ ret.out[1] # ret.out[2]
    /\ iter = "off"

\* C16: a PutWithExpiry that takes the lock with Max = 0 or Count() < Max
\* removes no entry: nothing changes the store before its insert, which
\* raises Count() by 1 when the key is new and leaves it when the key is
\* present, and leaves every entry of another key as it was.
C16_NoEvictionBelowCapacity ==
    [][/\ \A p \in Procs :
             (/\ ~AtLock(p)
              /\ ~AtLock(p)'
              /\ cfg.Max = 0 \/ args[p].cnt0 < cfg.Max) => data' = data
       /\ (/\ ret'.op = "PutWithExpiry"
           /\ cfg.Max = 0 \/ ret'.cnt0 < cfg.Max) =>
             /\ Len(data) = ret'.cnt0
             /\ ret'.rounds = 0
             /\ KeysOf(data') = KeysOf(data) \cup {ret'.key}
             /\ Len(data') = Len(data)
                   + (IF ret'.key \in KeysOf(data) THEN 0 ELSE 1)
             /\ Others(data', ret'.key) = Others(data, ret'.key)]_vars

\* C16's case: a put below capacity (Max = 2, one entry) has added a second
\* key, and a put into an unbounded store has found its key present.
C16_Witness ==
    /\ ret.op = "PutWithExpiry"
    /\ \/ cfg.Max = 2 /\ ret.cnt0 = 1 /\ Len(data) = 2
       \/ cfg.Max = 0 /\ ret.cnt0 = 2 /\ Len(data) = 2 /\ ret.is_dup

\* The entry of t the j-th drawn index points at.
SampledAt(t, samples, j) == t[samples[j] + 1]

\* The place in samples of the first sampled entry with the smallest
\* ExpireAt of the sample.
FirstLeast(t, samples) ==
    CHOOSE j \in 1..Len(samples) :
        /\ \A h \in 1..Len(samples) :
              SampledAt(t, samples, j).ExpireAt <= SampledAt(t, samples, h).ExpireAt
        /\ \A h \in 1..(j - 1) :
              SampledAt(t, samples, h).ExpireAt # SampledAt(t, samples, j).ExpireAt

\* C17 (as claimed): a round of evictKey on a non-empty store draws NSamples
\* indices (1 when NSamples is 0) and removes exactly one entry: the sampled
\* entry with the smallest ExpireAt, the first sampled among equals; no
\* entry that was not sampled is removed.
C17_EvictKeyRemovesLeast ==
    [][ret'.op = "evictKey" =>
         /\ data # <<>>
         /\ Len(ret'.out) = (IF cfg.NSamples = 0 THEN 1 ELSE cfg.NSamples)
         /\ \A j \in 1..Len(ret'.out) : ret'.out[j] \in 0..(Len(data) - 1)
         /\ Len(data') = Len(data) - 1
         /\ data' = Others(data,
                          SampledAt(data, ret'.out,
                                    FirstLeast(data, ret'.out)).Key)]_vars

PutStep(p) == pc'[p] # pc[p] \/ args'[p] # args[p]

\* C18: a PutWithExpiry that took the lock with Max > 0 and Count() >= Max
\* goes on running rounds of evictKey while fewer than NEvictions have run
\* and the store is not empty, whatever Count() has fallen to, and inserts
\* only then; so when NEvictions >= the count it started with and every
\* round removed an entry, the store is empty at the insert and Count() is
\* 1 after it.
C18_EvictionRunsAllRounds ==
    [][\A p \in Procs :
         (/\ ~AtLock(p)
          /\ PutStep(p)
          /\ cfg.Max > 0 /\ args[p].cnt0 >= cfg.Max) =>
            IF args[p].i < cfg.NEvictions /\ data # <<>>
            THEN /\ ret'.op = "evictKey"
                 /\ ~AtLock(p)'
                 /\ args'[p].i = args[p].i + 1
            ELSE /\ ret'.op = "PutWithExpiry"
                 /\ pc'[p] = "idle"
                 /\ ret'.rounds = args[p].i
                 /\ (/\ cfg.NEvictions >= ret'.cnt0
                     /\ ret'.cnt0 - Len(data) = ret'.rounds) =>
                       (data = <<>> /\ Len(data') = 1)]_vars

\* C18's case: a put into a full store of two (Max = 2) has run a second
\* round after the first had made room, and has inserted into the empty
\* store.
C18_Witness ==
    /\ ret.op = "PutWithExpiry"
    /\ cfg.Max = 2
    /\ ret.cnt0 = 2
    /\ ret.rounds = 2
    /\ ~ret.is_dup
    /\ Len(data) = 1

\* C19: whether a PutWithExpiry runs the eviction pass is decided when it
\* takes the lock, by Max > 0 and Count() >= Max alone, whether or not its
\* key is present; the rounds run before the insert, on any entry, so the
\* put of a present key at capacity ends with the key added afresh when a
\* round removed its entry, and overwritten otherwise.
C19_EvictionBeforeInsert ==
    [][/\ \A p \in Procs :
             (AtLock(p) /\ ~AtLock(p)') =>
                /\ data' = data
                /\ args'[p].ran = (cfg.Max > 0 /\ Len(data) >= cfg.Max)
                /\ args'[p].cnt0 = Len(data)
                /\ (args'[p].exp0 # -1) = (args'[p].key \in KeysOf(data))
       /\ ret'.op = "evictKey" =>
             \E p \in Procs :
                /\ ~AtLock(p) /\ ~AtLock(p)'
                /\ args[p].ran
                /\ cfg.Max > 0 /\ args[p].cnt0 >= cfg.Max
       /\ (/\ ret'.op = "PutWithExpiry"
           /\ ret'.exp0 # -1
           /\ cfg.Max > 0 /\ ret'.cnt0 >= cfg.Max) =>
             /\ ret'.ran
             /\ ret'.rounds = cfg.NEvictions \/ data = <<>>
             /\ ret'.is_dup = (ret'.key \in KeysOf(data))
             /\ Len(data) <= ret'.cnt0
             /\ Len(data') = Len(data) + (IF ret'.is_dup THEN 0 ELSE 1)]_vars

\* C19's case: a put of a present key into a full store of two has had both
\* entries removed, the other key's and its own, and has added its key
\* afresh.
C19_Witness ==
    /\ ret.op = "PutWithExpiry"
    /\ ret.exp0 # -1
    /\ ret.cnt0 = 2
    /\ ret.ran
    /\ ~ret.is_dup
    /\ KeysOf(data) = {ret.key}

====
